---- MODULE Spec2Model ----
(***************************************************************************)
(* A model of basn1, an ASN.1 DER codec: the integer-limb codecs           *)
(* (src/src/intenc.rs), the header codec (src/src/header), the typed       *)
(* objects (src/src/objects.rs), and the DER Reader and Writer cursors     *)
(* (src/src/der), alone and with the Reader reading what the Writer wrote. *)
(*                                                                         *)
(* Bytes are naturals in 0..255.  A u32 is kept as two 16-bit halves       *)
(* [hi, lo] and a usize as four 16-bit limbs, most significant first, so   *)
(* that the 32-bit and 64-bit widths of the code are kept exactly.         *)
(***************************************************************************)
EXTENDS Integers, Sequences, FiniteSets, TLC

VARIABLES
    limbs,      \* intenc: the raw byte slice handed to from_slice / parse_from_slice
    view,       \* intenc: the validated typed view built from limbs
    prim,       \* intenc: the outcome of the last to_uN call on the view
    lenArg,     \* header: the usize handed to Length::new_smallest
    lenVal,     \* header: the Length value in hand
    lenOut,     \* header: the bytes of an encoded length, buf[0..sz]
    lenDec,     \* header: the outcome of Length::decode on lenOut
    tagArg,     \* header: class, pc and the u32 handed to TagEncoded::new_smallest
    identVal,   \* header: the Identifier value in hand
    identOut,   \* header: the bytes of an encoded identifier, buf[0..sz]
    identDec,   \* header: the outcome of Identifier::decode on identOut
    readers,    \* reader: the Readers in hand, the one from Reader::new first
    rlast,      \* reader: the last call on a Reader and its outcome
    writer,     \* writer: the Writer in hand, its buffer and cursor
    wlast,      \* writer: the last call on the Writer and its outcome
    wcalls,     \* writer: the number of calls made on the Writer
    object,     \* objects: the last method call on the typed object a decode returned
    nested      \* der: the arguments and the position of a write/read round trip

intencVars == <<limbs, view, prim>>

lengthVars == <<lenArg, lenVal, lenOut, lenDec>>

identVars == <<tagArg, identVal, identOut, identDec>>

headerVars == <<lenArg, lenVal, lenOut, lenDec, tagArg, identVal, identOut, identDec>>

readerVars == <<readers, rlast>>

writerVars == <<writer, wlast, wcalls>>

objectVars == <<object>>

nestedVars == <<nested>>

vars ==
    <<limbs, view, prim, lenArg, lenVal, lenOut, lenDec, tagArg, identVal, identOut, identDec,
      readers, rlast, writer, wlast, wcalls, object, nested>>

----------------------------------------------------------------------------
(* Bounds of the model                                                     *)

\* longest byte slice handed to the integer-limb codecs
MaxLimbs == 3

----------------------------------------------------------------------------
(* Machine arithmetic                                                      *)

RECURSIVE Pow2(_)
Pow2(n) == IF n = 0 THEN 1 ELSE 2 * Pow2(n - 1)

None == [some |-> FALSE, v |-> 0]

Some(x) == [some |-> TRUE, v |-> x]

\* uN::checked_shl: None only when the shift amount is >= the bit width;
\* bits shifted out of the top are dropped silently
CheckedShl(x, k, w) ==
    IF k >= w THEN None ELSE Some((x * Pow2(k)) % Pow2(w))

\* uN::checked_add: None when the sum does not fit in w bits
CheckedAdd(x, y, w) ==
    IF x + y >= Pow2(w) THEN None ELSE Some(x + y)

----------------------------------------------------------------------------
(* 32-bit and 64-bit words                                                 *)

U32(hi, lo) == [hi |-> hi, lo |-> lo]

\* u32::from(b) for a byte b
U32From(b) == U32(0, b)

\* x << k on a u32, 0 < k < 16: the bits shifted out of bit 31 are dropped
U32Shl(x, k) ==
    U32(((x.hi * Pow2(k)) % 65536) + ((x.lo * Pow2(k)) \div 65536),
        (x.lo * Pow2(k)) % 65536)

\* u32::checked_shl(k): None only when k >= 32
CheckedShl32(x, k) == IF k >= 32 THEN None ELSE Some(U32Shl(x, k))

\* u32::checked_add(y) for y = u32::from(byte)
CheckedAdd32(x, y) ==
    LET lo == x.lo + y.lo
        hi == x.hi + y.hi + (lo \div 65536)
    IN  IF hi >= 65536 THEN None ELSE Some(U32(hi, lo % 65536))

\* v >> 7 on a u32
U32Shr7(v) == U32(v.hi \div 128, ((v.hi % 128) * 512) + (v.lo \div 128))

\* ((b >> s) & 0x7f) as u8, for s a multiple of 7 below 32
U32Group7(b, s) ==
    IF s >= 16 THEN (b.hi \div Pow2(s - 16)) % 128
    ELSE (((b.hi % Pow2(s)) * Pow2(16 - s)) + (b.lo \div Pow2(s))) % 128

\* v >= 0x80 on a u32
U32Ge80(v) == v.hi > 0 \/ v.lo >= 128

\* u32::to_be_bytes
to_be_bytes(v) == <<v.hi \div 256, v.hi % 256, v.lo \div 256, v.lo % 256>>

\* number of leading zero bits of a 16-bit limb
RECURSIVE LeadingZeros16(_)
LeadingZeros16(x) == IF x = 0 THEN 16 ELSE LeadingZeros16(x \div 2) - 1

\* usize::leading_zeros on a 64-bit usize kept as four 16-bit limbs
leading_zeros(v) ==
    IF v[1] # 0 THEN LeadingZeros16(v[1])
    ELSE IF v[2] # 0 THEN 16 + LeadingZeros16(v[2])
    ELSE IF v[3] # 0 THEN 32 + LeadingZeros16(v[3])
    ELSE 48 + LeadingZeros16(v[4])

\* core::mem::size_of::<usize>() on a 64-bit target
UsizeBytes == 8

\* a usize holding a small natural n < 2^16
Usize(n) == <<0, 0, 0, n>>

\* a | b on bytes
RECURSIVE BitOr8(_, _)
BitOr8(a, b) ==
    IF a = 0 THEN b
    ELSE IF b = 0 THEN a
    ELSE (IF a % 2 = 1 \/ b % 2 = 1 THEN 1 ELSE 0) + 2 * BitOr8(a \div 2, b \div 2)

Zeros(n) == [i \in 1..n |-> 0]

----------------------------------------------------------------------------
(* Length, src/src/header/length.rs                                        *)

Short(v) == [kind |-> "Short", nb_bytes |-> 0, value |-> U32(0, v)]

Long(nb_bytes, value) == [kind |-> "Long", nb_bytes |-> nb_bytes, value |-> value]

Indefinite == [kind |-> "Indefinite", nb_bytes |-> 0, value |-> U32(0, 0)]

\* Length::value
Length_value(len) == IF len.kind = "Indefinite" THEN None ELSE Some(len.value)

\* Length::new_smallest with the byte count rounded from bits_clear + 1
Length_new_smallest_rounded(v) ==
    IF v[1] = 0 /\ v[2] = 0 /\ v[3] = 0 /\ v[4] < 128
    THEN Short(v[4] % 256)
    ELSE LET bits_clear == leading_zeros(v)
             nb_bytes == (UsizeBytes - ((bits_clear + 1) \div 8)) % 256
         IN  Long(nb_bytes, U32(v[3], v[4]))

\* Length::new_smallest(v: usize)
Length_new_smallest(v) ==
    IF v[1] = 0 /\ v[2] = 0 /\ v[3] = 0 /\ v[4] < 128
    THEN Short(v[4] % 256)
    ELSE LET bits_clear == leading_zeros(v)
             nb_bytes == (UsizeBytes - (bits_clear \div 8)) % 256
         IN  Long(nb_bytes, U32(v[3], v[4]))

\* Length::size_bytes counting the bytes of the u32 value, four at most
Length_size_bytes_value(len) ==
    IF len.kind = "Long" THEN 1 + (IF len.nb_bytes > 4 THEN 4 ELSE len.nb_bytes) ELSE 1

\* Length::size_bytes
Length_size_bytes(len) == IF len.kind = "Long" THEN 1 + len.nb_bytes ELSE 1

\* put_length: the bytes stored at out[0], out[1], ... in order;
\* panic when one of its assertions fails
put_length(len) ==
    IF len.kind = "Indefinite" THEN [panic |-> FALSE, bytes |-> <<128>>]
    ELSE IF len.kind = "Short"
    THEN IF len.value.lo < 128
         THEN [panic |-> FALSE, bytes |-> <<len.value.lo>>]
         ELSE [panic |-> TRUE, bytes |-> <<>>]
    ELSE IF len.nb_bytes = 0 \/ len.nb_bytes >= 128
    THEN [panic |-> TRUE, bytes |-> <<>>]
    ELSE LET pad == IF len.nb_bytes > 4 THEN len.nb_bytes - 4 ELSE 0
             rest == len.nb_bytes - pad
         IN  [panic |-> FALSE,
              bytes |-> <<128 + len.nb_bytes>> \o Zeros(pad)
                          \o SubSeq(to_be_bytes(len.value), 4 - rest + 1, 4)]

\* the for loop of get_length over slice[index], index counted from 0
RECURSIVE GetLengthLoop(_, _, _, _)
GetLengthLoop(slice, index, n, acc) ==
    IF n = 0 THEN Some(acc)
    ELSE LET sh == CheckedShl32(acc, 8)
         IN  IF ~sh.some THEN None
             ELSE LET ad == CheckedAdd32(sh.v, U32From(slice[index + 1]))
                  IN  IF ~ad.some THEN None
                      ELSE GetLengthLoop(slice, index + 1, n - 1, ad.v)

LenErr(e) == [res |-> e, len |-> Indefinite, size |-> 0]

\* get_length, behind Length::decode
get_length(slice) ==
    IF slice = <<>> THEN LenErr("EncodingIncomplete")
    ELSE LET f == slice[1]
         IN  IF f = 128 THEN [res |-> "Ok", len |-> Indefinite, size |-> 1]
             ELSE IF f >= 128
             THEN LET nb_bytes == f % 128
                      total_size == 1 + nb_bytes
                  IN  IF Len(slice) < total_size THEN LenErr("EncodingIncomplete")
                      ELSE LET acc == GetLengthLoop(slice, 1, nb_bytes, U32(0, 0))
                           IN  IF ~acc.some THEN LenErr("EncodingOverflow")
                               ELSE [res |-> "Ok", len |-> Long(nb_bytes, acc.v),
                                     size |-> total_size]
             ELSE [res |-> "Ok", len |-> Short(f), size |-> 1]

----------------------------------------------------------------------------
(* Identifier, src/src/header/identifier.rs                                *)

Classes == {"Universal", "Application", "Context", "Private"}

PCs == {"Constructed", "Primitive"}

TagShort(v) == [kind |-> "Short", value |-> U32(0, v)]

TagLong(v) == [kind |-> "Long", value |-> v]

\* TagEncoded::value
TagEncoded_value(tag) == tag.value

\* TagEncoded::new_smallest(v: u32)
TagEncoded_new_smallest(v) ==
    IF ~U32Ge80(v) THEN TagShort(v.lo % 256) ELSE TagLong(v)

Identifier(class, pc, tag) == [class |-> class, pc |-> pc, tag |-> tag]

\* decode_first_byte; the TagType is "Long" or the 5-bit short tag
decode_first_byte(hdr) ==
    [class |-> CASE hdr \div 64 = 0 -> "Universal"
                 [] hdr \div 64 = 1 -> "Application"
                 [] hdr \div 64 = 2 -> "Context"
                 [] hdr \div 64 = 3 -> "Private",
     pc    |-> IF (hdr \div 32) % 2 # 0 THEN "Constructed" ELSE "Primitive",
     long  |-> (hdr % 32 = 31),
     tag   |-> hdr % 32]

\* encode_first_byte: e1 << 6 | e2 | e3, e3 the short tag or 0b1_1111
encode_first_byte(class, constructed, e3) ==
    LET e1 == CASE class = "Universal" -> 0
                [] class = "Application" -> 1
                [] class = "Context" -> 2
                [] class = "Private" -> 3
        e2 == IF constructed = "Constructed" THEN 32 ELSE 0
    IN  BitOr8(BitOr8(e1 * 64, e2), e3)

\* size_7bit with the loop test `v > 0x80`
RECURSIVE size_7bit_strict(_)
size_7bit_strict(v) ==
    IF v.hi > 0 \/ v.lo > 128 THEN 1 + size_7bit_strict(U32Shr7(v)) ELSE 1

\* size_7bit
RECURSIVE size_7bit(_)
size_7bit(v) == IF U32Ge80(v) THEN 1 + size_7bit(U32Shr7(v)) ELSE 1

\* the for loop of Identifier::encode for a long tag b
TagLongBytes(b) ==
    LET nb_bytes == size_7bit(b)
    IN  [j \in 1..nb_bytes |->
            LET i == j - 1
                shifter == 7 * (nb_bytes - 1 - i)
                v == U32Group7(b, shifter)
            IN  IF i = nb_bytes - 1 THEN v ELSE BitOr8(v, 128)]

\* Identifier::encode: the bytes stored at out[0], out[1], ... in order
Identifier_encode(x) ==
    LET first == encode_first_byte(x.class, x.pc,
                                   IF x.tag.kind = "Short" THEN x.tag.value.lo ELSE 31)
    IN  IF x.tag.kind = "Short" THEN <<first>> ELSE <<first>> \o TagLongBytes(x.tag.value)

\* Identifier::size_bytes
Identifier_size_bytes(x) ==
    IF x.tag.kind = "Long" THEN 1 + size_7bit(x.tag.value) ELSE 1

\* get_taglong: index counted from 0 and returned with the outcome
RECURSIVE get_taglong(_, _, _, _)
get_taglong(slice, index, acc, first_byte) ==
    IF index >= Len(slice) THEN [res |-> "TagEncodingIncomplete", acc |-> acc, index |-> index]
    ELSE LET byte == slice[index + 1]
             cbyte == byte % 128
             sh == CheckedShl32(acc, 7)
             ad == IF sh.some THEN CheckedAdd32(sh.v, U32From(cbyte)) ELSE None
         IN  IF byte >= 128
             THEN IF first_byte /\ cbyte = 0
                  THEN [res |-> "TagEncodingNonCanonical", acc |-> acc, index |-> index + 1]
                  ELSE IF ~ad.some
                  THEN [res |-> "TagEncodingOverflow", acc |-> acc, index |-> index + 1]
                  ELSE get_taglong(slice, index + 1, ad.v, FALSE)
             ELSE IF ~ad.some
                  THEN [res |-> "TagEncodingOverflow", acc |-> acc, index |-> index + 1]
                  ELSE [res |-> "Ok", acc |-> ad.v, index |-> index + 1]

NoIdentifier == Identifier("Universal", "Primitive", TagShort(0))

IdentErr(e) == [res |-> e, ident |-> NoIdentifier, size |-> 0]

\* Identifier::decode
Identifier_decode(slice) ==
    IF slice = <<>> THEN IdentErr("EmptyHeader")
    ELSE LET f == decode_first_byte(slice[1])
         IN  IF ~f.long
             THEN [res |-> "Ok", ident |-> Identifier(f.class, f.pc, TagShort(f.tag)), size |-> 1]
             ELSE LET t == get_taglong(slice, 1, U32(0, 0), TRUE)
                  IN  IF t.res # "Ok" THEN IdentErr(t.res)
                      ELSE [res |-> "Ok", ident |-> Identifier(f.class, f.pc, TagLong(t.acc)),
                            size |-> t.index]

----------------------------------------------------------------------------
(* Values of the header-codec variables while nothing is in hand           *)

NoUsize == <<>>

NoLen == [kind |-> "None", nb_bytes |-> 0, value |-> U32(0, 0)]

NoOut == [state |-> "none", bytes |-> <<>>, written |-> 0]

NoLenDec == [res |-> "none", len |-> NoLen, size |-> 0]

NoTagArg == [class |-> "None", pc |-> "None", v |-> U32(0, 0)]

NoIdentVal == [class |-> "None", pc |-> "None", tag |-> TagShort(0)]

NoIdentDec == [res |-> "none", ident |-> NoIdentVal, size |-> 0]

LengthIdle == lenArg = NoUsize /\ lenVal = NoLen /\ lenOut = NoOut /\ lenDec = NoLenDec

IdentIdle ==
    tagArg = NoTagArg /\ identVal = NoIdentVal /\ identOut = NoOut /\ identDec = NoIdentDec

\* what the last call was, on which Reader, and how it came out
Last(who, op, o, before) ==
    [who |-> who, op |-> op, res |-> o.res, err |-> o.err, before |-> before,
     payload |-> o.payload]

NoLast == [who |-> 0, op |-> "none", res |-> "none", err |-> "", before |-> 0, payload |-> <<>>]

ReaderIdle == readers = <<>> /\ rlast = NoLast

\* what the last call on the Writer was, how it came out, the Writer before it,
\* and the slice finish() returned
WLast(op, res, before, slice) ==
    [op |-> op, res |-> res, before |-> before, slice |-> slice]

NoWriter == [buf |-> <<>>, index |-> 0]

NoWLast == WLast("none", "none", NoWriter, <<>>)

WriterIdle == writer = NoWriter /\ wlast = NoWLast /\ wcalls = 0

\* a method call on a typed object: the object's bytes, the position of an
\* OIDComponents iterator over it, the outcome, the number returned, and the
\* components yielded so far
Object(method, slice, index, res, value, yielded) ==
    [method |-> method, slice |-> slice, index |-> index, res |-> res, value |-> value,
     yielded |-> yielded]

NoObject == Object("none", <<>>, 0, "none", 0, <<>>)

ObjectIdle == object = NoObject

NoNested == [s |-> <<>>, b |-> FALSE, done |-> {}]

NestedIdle == nested = NoNested

----------------------------------------------------------------------------
(* Integer-limb codecs, src/src/intenc.rs                                  *)

\* byte values the integer-limb inputs are drawn from
LimbBytes == {0, 1, 2, 127, 128, 129, 255}

\* the to_uN widths followed here, u8 and u16; to_u32, to_u64 and to_u128 are
\* further instances of the same macro bodies
Widths == {8, 16}

RECURSIVE SeqsUpTo(_, _)
SeqsUpTo(S, n) ==
    IF n = 0 THEN {<<>>}
    ELSE LET shorter == SeqsUpTo(S, n - 1)
         IN  shorter \cup {Append(s, b) : s \in {t \in shorter : Len(t) = n - 1}, b \in S}

\* Integer8Bit::from_slice without the test of slice[0]
Integer8Bit_from_slice_nonempty(slice) ==
    IF slice = <<>>
    THEN [ok |-> FALSE, bytes |-> <<>>]
    ELSE [ok |-> TRUE, bytes |-> slice]

\* Integer8Bit::from_slice
Integer8Bit_from_slice(slice) ==
    IF slice = <<>> \/ slice[1] = 0
    THEN [ok |-> FALSE, bytes |-> <<>>]
    ELSE [ok |-> TRUE, bytes |-> slice]

\* the while loop of IntegerContBit7::parse_from_slice, i counted from 0;
\* 0 stands for the Err(()) return
RECURSIVE Cont7Scan(_, _)
Cont7Scan(slice, i) ==
    IF slice[i + 1] >= 128
    THEN IF i + 1 = Len(slice) THEN 0 ELSE Cont7Scan(slice, i + 1)
    ELSE 1 + i

\* IntegerContBit7::parse_from_slice
IntegerContBit7_parse_from_slice(slice) ==
    IF slice = <<>> THEN [ok |-> FALSE, bytes |-> <<>>, adv |-> 0]
    ELSE IF slice[1] = 128 THEN [ok |-> FALSE, bytes |-> <<>>, adv |-> 0]
    ELSE LET n == Cont7Scan(slice, 0)
         IN  IF n = 0 THEN [ok |-> FALSE, bytes |-> <<>>, adv |-> 0]
             ELSE [ok |-> TRUE, bytes |-> SubSeq(slice, 1, n), adv |-> n]

\* the loop of to_primitive8!: acc.checked_shl(8)?.checked_add(c)?
RECURSIVE Prim8Loop(_, _, _, _)
Prim8Loop(acc, s, i, w) ==
    IF i > Len(s) THEN Some(acc)
    ELSE LET sh == CheckedShl(acc, 8, w)
         IN  IF ~sh.some THEN None
             ELSE LET ad == CheckedAdd(sh.v, s[i], w)
                  IN  IF ~ad.some THEN None ELSE Prim8Loop(ad.v, s, i + 1, w)

\* to_primitive8!($type, $name) with $type of w bits
to_primitive8(w, s) == Prim8Loop(s[1], s, 2, w)

\* the loop of to_primitive7!: acc.checked_shl(7)?.checked_add(c & 0x7f)?
RECURSIVE Prim7Loop(_, _, _, _)
Prim7Loop(acc, s, i, w) ==
    IF i > Len(s) THEN Some(acc)
    ELSE LET sh == CheckedShl(acc, 7, w)
         IN  IF ~sh.some THEN None
             ELSE LET ad == CheckedAdd(sh.v, s[i] % 128, w)
                  IN  IF ~ad.some THEN None ELSE Prim7Loop(ad.v, s, i + 1, w)

\* to_primitive7!($type, $name) with $type of w bits
to_primitive7(w, s) == Prim7Loop(s[1] % 128, s, 2, w)

NoView == [form |-> "none", bytes |-> <<>>]

NoPrim == [width |-> 0, res |-> None]

InitIntenc ==
    /\ limbs \in SeqsUpTo(LimbBytes, MaxLimbs)
    /\ view = NoView
    /\ prim = NoPrim
    /\ LengthIdle
    /\ IdentIdle
    /\ ReaderIdle
    /\ WriterIdle
    /\ ObjectIdle
    /\ NestedIdle

\* Reader::integer / Reader::enumerated build the view with from_slice
Integer8FromSlice ==
    /\ view.form = "none"
    /\ LET r == Integer8Bit_from_slice(limbs)
       IN  view' = IF r.ok THEN [form |-> "Integer8Bit", bytes |-> r.bytes]
                   ELSE [form |-> "rejected", bytes |-> <<>>]
    /\ UNCHANGED <<limbs, prim, headerVars, readerVars, writerVars, objectVars, nestedVars>>

\* OID::parse_from_slice and OIDComponents::next build the view with parse_from_slice
Cont7ParseFromSlice ==
    /\ view.form = "none"
    /\ LET r == IntegerContBit7_parse_from_slice(limbs)
       IN  view' = IF r.ok THEN [form |-> "IntegerContBit7", bytes |-> r.bytes]
                   ELSE [form |-> "rejected", bytes |-> <<>>]
    /\ UNCHANGED <<limbs, prim, headerVars, readerVars, writerVars, objectVars, nestedVars>>

\* Integer::to_uN, Enumerated::to_uN
ToPrimitive8 ==
    /\ view.form = "Integer8Bit"
    /\ prim.width = 0
    /\ \E w \in Widths : prim' = [width |-> w, res |-> to_primitive8(w, view.bytes)]
    /\ UNCHANGED <<limbs, view, headerVars, readerVars, writerVars, objectVars, nestedVars>>

\* OIDComponent::to_uN
ToPrimitive7 ==
    /\ view.form = "IntegerContBit7"
    /\ prim.width = 0
    /\ \E w \in Widths : prim' = [width |-> w, res |-> to_primitive7(w, view.bytes)]
    /\ UNCHANGED <<limbs, view, headerVars, readerVars, writerVars, objectVars, nestedVars>>

NextIntenc ==
    \/ Integer8FromSlice
    \/ Cont7ParseFromSlice
    \/ ToPrimitive8
    \/ ToPrimitive7

SpecIntenc == InitIntenc /\ [][NextIntenc]_vars

----------------------------------------------------------------------------
(* The header codec driven as in the tests of src/src/header: a value is   *)
(* built, encoded into a zeroed buffer, and the written prefix is decoded; *)
(* or raw bytes are decoded.                                               *)

\* the longest raw length encoding handed to Length::decode
MaxLenBytes == 6

\* the longest raw identifier encoding handed to Identifier::decode
MaxTagBytes == 6

\* let mut buf = [0u8; 32] of the decode_encode test helpers
TestBufLen == 32

IntencIdle == limbs = <<>> /\ view = NoView /\ prim = NoPrim

\* the usize values handed to Length::new_smallest
UsizeInputs ==
    {<<a, b, c, d>> : a \in {0, 1, 256}, b \in {0, 1, 256, 65535},
                      c \in {0, 1, 32, 255, 256, 65535},
                      d \in {0, 1, 127, 128, 255, 256, 52062, 65535}}

\* the u32 tag numbers handed to TagEncoded::new_smallest and Identifier::encode
U32Inputs ==
    {U32(hi, lo) : hi \in {0, 1, 4095, 4096, 65535},
                   lo \in (0..130) \cup {255, 256, 9346, 16383, 16384, 65535}}

\* the Length values handed to Length::encode as they are
LengthInputs ==
    {Short(v) : v \in {0, 1, 127}} \cup {Indefinite}
        \cup {Long(n, v) : n \in {1, 2, 3, 4, 5, 8, 31, 32, 127},
                           v \in {U32(0, 0), U32(0, 255), U32(1, 0), U32(65535, 65535)}}

\* first bytes and following bytes of the raw encodings handed to the decoders
LenFirstBytes == {0, 127, 128, 129, 130, 132, 133, 255}

LenRestBytes == {0, 1, 255}

TagFirstBytes == {0, 30, 31, 63, 95, 223, 255}

TagRestBytes == {0, 127, 128, 129, 255}

RawInputs(first, rest, n) ==
    {<<>>} \cup {<<f>> \o r : f \in first, r \in SeqsUpTo(rest, n - 1)}

\* buf[0..sz] after `bytes` were stored from buf[0] on into a zeroed buffer
TestBufPrefix(bytes, sz) ==
    SubSeq([i \in 1..TestBufLen |-> IF i <= Len(bytes) THEN bytes[i] ELSE 0], 1, sz)

InitHeader ==
    /\ IntencIdle
    /\ ReaderIdle
    /\ WriterIdle
    /\ ObjectIdle
    /\ NestedIdle
    /\ \/ /\ lenArg \in UsizeInputs
          /\ lenVal = NoLen /\ lenOut = NoOut /\ lenDec = NoLenDec
          /\ IdentIdle
       \/ /\ lenOut \in {[state |-> "raw", bytes |-> b, written |-> 0] :
                            b \in RawInputs(LenFirstBytes, LenRestBytes, MaxLenBytes)}
          /\ lenArg = NoUsize /\ lenVal = NoLen /\ lenDec = NoLenDec
          /\ IdentIdle
       \/ /\ lenVal \in LengthInputs
          /\ lenArg = NoUsize /\ lenOut = NoOut /\ lenDec = NoLenDec
          /\ IdentIdle
       \/ /\ tagArg \in [class : Classes, pc : PCs, v : U32Inputs]
          /\ identVal = NoIdentVal /\ identOut = NoOut /\ identDec = NoIdentDec
          /\ LengthIdle
       \/ /\ identVal \in {Identifier(c, p, t) : c \in Classes, p \in PCs,
                              t \in {TagShort(s) : s \in 0..30} \cup {TagLong(v) : v \in U32Inputs}}
          /\ tagArg = NoTagArg /\ identOut = NoOut /\ identDec = NoIdentDec
          /\ LengthIdle
       \/ /\ identOut \in {[state |-> "raw", bytes |-> b, written |-> 0] :
                              b \in RawInputs(TagFirstBytes, TagRestBytes, MaxTagBytes)}
          /\ tagArg = NoTagArg /\ identVal = NoIdentVal /\ identDec = NoIdentDec
          /\ LengthIdle

\* let length = Length::new_smallest(*v)
LengthNewSmallest ==
    /\ lenArg # NoUsize
    /\ lenVal = NoLen
    /\ lenVal' = Length_new_smallest(lenArg)
    /\ UNCHANGED <<lenArg, lenOut, lenDec, identVars, intencVars, readerVars, writerVars, objectVars, nestedVars>>

\* let sz = len.size_bytes(); len.encode(&mut buf); ... &buf[0..sz]; a store
\* past the end of buf panics, as a failed assertion of put_length does
LengthEncode ==
    /\ lenVal # NoLen
    /\ lenOut = NoOut
    /\ LET w == put_length(lenVal)
       IN  lenOut' = IF w.panic \/ Len(w.bytes) > TestBufLen
                     THEN [state |-> "panic", bytes |-> <<>>, written |-> 0]
                     ELSE [state |-> "written",
                           bytes |-> TestBufPrefix(w.bytes, Length_size_bytes(lenVal)),
                           written |-> Len(w.bytes)]
    /\ UNCHANGED <<lenArg, lenVal, lenDec, identVars, intencVars, readerVars, writerVars, objectVars, nestedVars>>

\* Length::decode(&buf[0..sz])
LengthDecode ==
    /\ lenOut.state \in {"written", "raw"}
    /\ lenDec = NoLenDec
    /\ lenDec' = get_length(lenOut.bytes)
    /\ UNCHANGED <<lenArg, lenVal, lenOut, identVars, intencVars, readerVars, writerVars, objectVars, nestedVars>>

\* Identifier { class, pc, tag: TagEncoded::new_smallest(tag) }
TagNewSmallest ==
    /\ tagArg # NoTagArg
    /\ identVal = NoIdentVal
    /\ identVal' = Identifier(tagArg.class, tagArg.pc, TagEncoded_new_smallest(tagArg.v))
    /\ UNCHANGED <<tagArg, identOut, identDec, lengthVars, intencVars, readerVars, writerVars, objectVars, nestedVars>>

\* let sz = header.encode(&mut buf); ... &buf[0..sz]
IdentifierEncode ==
    /\ identVal # NoIdentVal
    /\ identOut = NoOut
    /\ LET w == Identifier_encode(identVal)
       IN  identOut' = [state |-> "written", bytes |-> TestBufPrefix(w, Len(w)),
                        written |-> Len(w)]
    /\ UNCHANGED <<tagArg, identVal, identDec, lengthVars, intencVars, readerVars, writerVars, objectVars, nestedVars>>

\* Identifier::decode(&buf[0..sz])
IdentifierDecode ==
    /\ identOut.state \in {"written", "raw"}
    /\ identDec = NoIdentDec
    /\ identDec' = Identifier_decode(identOut.bytes)
    /\ UNCHANGED <<tagArg, identVal, identOut, lengthVars, intencVars, readerVars, writerVars, objectVars, nestedVars>>

NextHeader ==
    \/ LengthNewSmallest
    \/ LengthEncode
    \/ LengthDecode
    \/ TagNewSmallest
    \/ IdentifierEncode
    \/ IdentifierDecode

SpecHeader == InitHeader /\ [][NextHeader]_vars

----------------------------------------------------------------------------
(* Universal tags, src/src/header/constants.rs                             *)

TAG_BOOLEAN == 1

TAG_INTEGER == 2

TAG_BIT_STRING == 3

TAG_OCTET_STRING == 4

TAG_NULL == 5

TAG_OID == 6

TAG_ENUMERATED == 10

TAG_UTF8_STRING == 12

TAG_SEQUENCE == 16

TAG_SET == 17

----------------------------------------------------------------------------
(* Typed objects, src/src/objects.rs                                       *)

\* the while loop of OID::parse_from_slice, index counted from 0
RECURSIVE OIDScan(_, _)
OIDScan(slice, index) ==
    IF index < Len(slice)
    THEN LET c == IntegerContBit7_parse_from_slice(SubSeq(slice, index + 1, Len(slice)))
         IN  IF ~c.ok THEN FALSE ELSE OIDScan(slice, index + c.adv)
    ELSE ~(index > Len(slice))

\* OID::parse_from_slice with the first byte tested as `f > 120`
OID_parse_from_slice_first(slice) ==
    IF slice = <<>> THEN FALSE
    ELSE IF slice[1] > 120 THEN FALSE
    ELSE OIDScan(slice, 1)

\* OID::parse_from_slice: TRUE for Ok
OID_parse_from_slice(slice) ==
    IF slice = <<>> THEN FALSE
    ELSE IF slice[1] \div 40 > 2 THEN FALSE
    ELSE OIDScan(slice, 1)

\* OIDComponents::next on an iterator at index over slice: None at the end,
\* Some(component) with the index moved on, or the unreachable!() branch
OIDComponents_next(slice, index) ==
    IF index = Len(slice) THEN [res |-> "None", index |-> index, bytes |-> <<>>]
    ELSE IF index > Len(slice) THEN [res |-> "Abort", index |-> index, bytes |-> <<>>]
    ELSE LET c == IntegerContBit7_parse_from_slice(SubSeq(slice, index + 1, Len(slice)))
         IN  IF ~c.ok THEN [res |-> "Unreachable", index |-> index, bytes |-> <<>>]
             ELSE [res |-> "Some", index |-> index + c.adv, bytes |-> c.bytes]

\* BitString::bits with the byte count not reduced by the leading byte
BitString_bits_all(slice) ==
    IF slice = <<>> THEN [res |-> "Abort", value |-> 0]
    ELSE IF Len(slice) * 8 < slice[1] THEN [res |-> "Overflow", value |-> 0]
    ELSE [res |-> "Ok", value |-> Len(slice) * 8 - slice[1]]

\* BitString::bits; the usize subtraction overflows when bits < bits_unused
BitString_bits(slice) ==
    IF slice = <<>> THEN [res |-> "Abort", value |-> 0]
    ELSE IF (Len(slice) - 1) * 8 < slice[1] THEN [res |-> "Overflow", value |-> 0]
    ELSE [res |-> "Ok", value |-> (Len(slice) - 1) * 8 - slice[1]]

\* core::str::from_utf8(sub).is_ok(): well-formed UTF-8 from position i on
RECURSIVE Utf8ValidFrom(_, _)
Utf8ValidFrom(s, i) ==
    LET n == Len(s)
        cont(k) == k <= n /\ s[k] >= 128 /\ s[k] <= 191
        b == s[i]
    IN  IF i > n THEN TRUE
        ELSE IF b < 128 THEN Utf8ValidFrom(s, i + 1)
        ELSE IF b >= 194 /\ b <= 223 THEN cont(i + 1) /\ Utf8ValidFrom(s, i + 2)
        ELSE IF b = 224
        THEN i + 1 <= n /\ s[i + 1] >= 160 /\ s[i + 1] <= 191 /\ cont(i + 2)
             /\ Utf8ValidFrom(s, i + 3)
        ELSE IF (b >= 225 /\ b <= 236) \/ b = 238 \/ b = 239
        THEN cont(i + 1) /\ cont(i + 2) /\ Utf8ValidFrom(s, i + 3)
        ELSE IF b = 237
        THEN i + 1 <= n /\ s[i + 1] >= 128 /\ s[i + 1] <= 159 /\ cont(i + 2)
             /\ Utf8ValidFrom(s, i + 3)
        ELSE IF b = 240
        THEN i + 1 <= n /\ s[i + 1] >= 144 /\ s[i + 1] <= 191 /\ cont(i + 2) /\ cont(i + 3)
             /\ Utf8ValidFrom(s, i + 4)
        ELSE IF b >= 241 /\ b <= 243
        THEN cont(i + 1) /\ cont(i + 2) /\ cont(i + 3) /\ Utf8ValidFrom(s, i + 4)
        ELSE IF b = 244
        THEN i + 1 <= n /\ s[i + 1] >= 128 /\ s[i + 1] <= 143 /\ cont(i + 2) /\ cont(i + 3)
             /\ Utf8ValidFrom(s, i + 4)
        ELSE FALSE

----------------------------------------------------------------------------
(* Reader, src/src/der/reader.rs                                           *)

\* a Reader; f is the element parser when the Reader sits inside a Set
Reader(slice, index, f) == [slice |-> slice, index |-> index, f |-> f]

\* Reader::new
Reader_new(slice) == Reader(slice, 0, "none")

\* &self.slice[self.index..]
Remaining(r) == SubSeq(r.slice, r.index + 1, Len(r.slice))

\* the outcome of a Reader call: Ok, Err(err) or Abort (a panic), the cursor
\* it leaves, and the payload bytes of an Ok
Outcome(res, err, index, payload) ==
    [res |-> res, err |-> err, index |-> index, payload |-> payload]

\* Reader::next: both decodes are unwrapped
Reader_next(r) ==
    LET d == Identifier_decode(Remaining(r))
        i1 == r.index + d.size
        l == get_length(SubSeq(r.slice, i1 + 1, Len(r.slice)))
    IN  IF d.res # "Ok" THEN [res |-> "Abort", index |-> r.index, hdr |-> NoIdentifier, len |-> Indefinite]
        ELSE IF l.res # "Ok" THEN [res |-> "Abort", index |-> i1, hdr |-> d.ident, len |-> Indefinite]
        ELSE [res |-> "Ok", index |-> i1 + l.size, hdr |-> d.ident, len |-> l.len]

\* assume: "Ok" or the name of the mismatch error
assume(header, pc, tag) ==
    IF header.class # "Universal" THEN "ExpectedClass"
    ELSE IF header.pc # pc THEN "ExpectedCType"
    ELSE IF TagEncoded_value(header.tag) # U32(0, tag) THEN "ExpectedTag"
    ELSE "Ok"

\* Reader::subslice with the cursor at index
Reader_subslice(r, index, length) ==
    IF length.kind = "Indefinite" THEN Outcome("Err", "IndefiniteLengthDER", index, <<>>)
    ELSE IF length.value.hi # 0 \/ index + length.value.lo > Len(r.slice)
    THEN Outcome("Abort", "", index, <<>>)
    ELSE Outcome("Ok", "", index + length.value.lo,
                 SubSeq(r.slice, index + 1, index + length.value.lo))

\* the flag and tag each decode operation hands to next_assume
OpPC(op) == IF op \in {"sequence", "set"} THEN "Constructed" ELSE "Primitive"

OpTag(op) ==
    CASE op = "bool" -> TAG_BOOLEAN
      [] op = "integer" -> TAG_INTEGER
      [] op = "enumerated" -> TAG_ENUMERATED
      [] op = "bitstring" -> TAG_BIT_STRING
      [] op = "octetstring" -> TAG_OCTET_STRING
      [] op = "utf8_string" -> TAG_OCTET_STRING
      [] op = "null" -> TAG_NULL
      [] op = "oid" -> TAG_OID
      [] op = "sequence" -> TAG_SEQUENCE
      [] op = "set" -> TAG_SET

\* the check each decode operation makes on the payload: "Ok" or the error
Validate(op, sub) ==
    CASE op = "bool" ->
            IF Len(sub) = 1
            THEN IF sub[1] = 0 \/ sub[1] = 255 THEN "Ok" ELSE "BoolEncodingInvalid"
            ELSE "BoolLengthInvalid"
      [] op \in {"integer", "enumerated"} ->
            IF Integer8Bit_from_slice(sub).ok THEN "Ok" ELSE "IntegerNotCanonical"
      [] op = "bitstring" ->
            IF sub = <<>> THEN "BitStringEncodingEmpty"
            ELSE IF sub[1] > 7 THEN "BitStringEncodingInvalidStart"
            ELSE IF sub[1] > 0
            THEN IF Len(sub) = 1 THEN "BitStringEncodingInvalidStart"
                 ELSE IF sub[Len(sub)] % Pow2(sub[1]) # 0 THEN "BitStringEncodingInvalidEnd"
                 ELSE "Ok"
            ELSE "Ok"
      [] op = "utf8_string" -> IF Utf8ValidFrom(sub, 1) THEN "Ok" ELSE "Utf8Invalid"
      [] op = "null" -> IF sub # <<>> THEN "NullEncodingInvalid" ELSE "Ok"
      [] op = "oid" -> IF OID_parse_from_slice(sub) THEN "Ok" ELSE "OIDInvalid"
      [] op \in {"anything", "octetstring", "sequence", "set"} -> "Ok"

\* a decode operation after subslice returned Ok: the check on the payload
DecodeValidate(op, s) ==
    IF Validate(op, s.payload) # "Ok"
    THEN Outcome("Err", Validate(op, s.payload), s.index, <<>>)
    ELSE s

\* a decode operation after subslice: its `?` hands on an Err
DecodeSubslice(op, s) == IF s.res # "Ok" THEN s ELSE DecodeValidate(op, s)

\* a decode operation after assume returned a: its `?` hands on an Err
DecodeAssume(op, r, h, a) ==
    IF a # "Ok" THEN Outcome("Err", a, h.index, <<>>)
    ELSE DecodeSubslice(op, Reader_subslice(r, h.index, h.len))

\* a decode operation after next returned h; anything() skips assume
DecodeNext(op, r, h) ==
    IF h.res = "Abort" THEN Outcome("Abort", "", r.index, <<>>)
    ELSE DecodeAssume(op, r, h,
                      IF op = "anything" THEN "Ok" ELSE assume(h.hdr, OpPC(op), OpTag(op)))

\* one decode operation of Reader: next / next_assume, subslice, validation
Decode(op, r) == DecodeNext(op, r, Reader_next(r))

\* Reader::done with the test `index <= slice.len()`
Reader_done_le(r) ==
    IF r.index <= Len(r.slice) THEN Outcome("Ok", "", r.index, <<>>)
    ELSE Outcome("Err", "ReaderNotTerminated", r.index, <<>>)

\* Reader::done
Reader_done(r) ==
    IF r.index = Len(r.slice) THEN Outcome("Ok", "", r.index, <<>>)
    ELSE Outcome("Err", "ReaderNotTerminated", r.index, <<>>)

\* the decode operations that return a value rather than a sub-Reader
PrimOps ==
    {"anything", "bool", "integer", "enumerated", "bitstring", "octetstring",
     "utf8_string", "null", "oid"}

\* the element parsers handed to Reader::set: each calls one decode operation
ElemParsers == {"bool", "anything"}

\* longest slice handed to Reader::new
MaxSlice == 4

\* byte values the Reader's input is drawn from
ReaderBytes == {0, 1, 2, 48, 49, 128, 129, 255}

\* longer slices: an octet string whose length field holds 2^32 + 1 in five
\* bytes, and one whose length field holds 1 in five bytes
LongLengthSlices == {<<4, 133, 1, 0, 0, 0, 1, 170>>, <<4, 133, 0, 0, 0, 0, 1, 170>>}

\* SEQUENCE { BOOLEAN } BOOLEAN and SET { BOOLEAN } BOOLEAN: an element with
\* sub-elements, followed by a further element of the parent
NestedSlices == {<<48, 3, 1, 1, 255, 1, 1, 0>>, <<49, 3, 1, 1, 255, 1, 1, 0>>}

InitReader ==
    /\ IntencIdle
    /\ LengthIdle
    /\ IdentIdle
    /\ WriterIdle
    /\ ObjectIdle
    /\ NestedIdle
    /\ readers \in {<<Reader_new(s)>> : s \in SeqsUpTo(ReaderBytes, MaxSlice)
                                            \cup LongLengthSlices \cup NestedSlices}
    /\ rlast = NoLast

\* the Readers after a call on readers[i], had they one cursor in common
Advance_shared(i, o) ==
    IF o.res = "Abort" THEN readers
    ELSE [j \in 1..Len(readers) |-> [readers[j] EXCEPT !.index = o.index]]

\* where the call on readers[i] leaves the Readers; a panic ends the run
Advance(i, o) ==
    IF o.res = "Abort" THEN readers ELSE [readers EXCEPT ![i].index = o.index]

\* anything, bool, integer, enumerated, bitstring, octetstring, utf8_string,
\* null, oid on any Reader in hand
ReaderDecode ==
    /\ rlast.res # "Abort"
    /\ \E i \in 1..Len(readers), op \in PrimOps :
          /\ readers[i].f = "none"
          /\ LET o == Decode(op, readers[i])
             IN  /\ readers' = Advance(i, o)
                 /\ rlast' = Last(i, op, o, readers[i].index)
    /\ UNCHANGED <<intencVars, headerVars, writerVars, objectVars, nestedVars>>

\* Reader::sequence: on Ok a new Reader over the payload, cursor 0
ReaderSequence ==
    /\ rlast.res # "Abort"
    /\ \E i \in 1..Len(readers) :
          /\ readers[i].f = "none"
          /\ LET o == Decode("sequence", readers[i])
             IN  /\ readers' = IF o.res = "Ok"
                               THEN Append(Advance(i, o), Reader_new(o.payload))
                               ELSE Advance(i, o)
                 /\ rlast' = Last(i, "sequence", o, readers[i].index)
    /\ UNCHANGED <<intencVars, headerVars, writerVars, objectVars, nestedVars>>

\* Reader::set(f): on Ok a Set holding a new Reader over the payload and f
ReaderSet ==
    /\ rlast.res # "Abort"
    /\ \E i \in 1..Len(readers), f \in ElemParsers :
          /\ readers[i].f = "none"
          /\ LET o == Decode("set", readers[i])
             IN  /\ readers' = IF o.res = "Ok"
                               THEN Append(Advance(i, o), Reader(o.payload, 0, f))
                               ELSE Advance(i, o)
                 /\ rlast' = Last(i, "set", o, readers[i].index)
    /\ UNCHANGED <<intencVars, headerVars, writerVars, objectVars, nestedVars>>

\* Set::next: the element parser runs on the Set's Reader (as &mut Reader, the
\* bound of the Iterator impl) unless the Reader is at its end
SetNext ==
    /\ rlast.res # "Abort"
    /\ \E i \in 1..Len(readers) :
          /\ readers[i].f # "none"
          /\ IF readers[i].index < Len(readers[i].slice)
             THEN LET o == Decode(readers[i].f, readers[i])
                  IN  /\ readers' = Advance(i, o)
                      /\ rlast' = Last(i, "Set::next", o, readers[i].index)
             ELSE /\ readers' = readers
                  /\ rlast' = Last(i, "Set::next",
                                   Outcome("None", "", readers[i].index, <<>>),
                                   readers[i].index)
    /\ UNCHANGED <<intencVars, headerVars, writerVars, objectVars, nestedVars>>

\* Reader::done
ReaderDone ==
    /\ rlast.res # "Abort"
    /\ \E i \in 1..Len(readers) :
          /\ readers[i].f = "none"
          /\ readers' = readers
          /\ rlast' = Last(i, "done", Reader_done(readers[i]), readers[i].index)
    /\ UNCHANGED <<intencVars, headerVars, writerVars, objectVars, nestedVars>>

NextReader ==
    \/ ReaderDecode
    \/ ReaderSequence
    \/ ReaderSet
    \/ SetNext
    \/ ReaderDone

SpecReader == InitReader /\ [][NextReader]_vars

----------------------------------------------------------------------------
(* Typed elements: one element is read with integer, enumerated, bitstring *)
(* or oid, and a method of the object returned is called                   *)

\* longest payload of a typed element
MaxPayload == 3

\* identifier bytes: universal primitive INTEGER, BIT STRING, OCTET STRING,
\* OID and ENUMERATED, a constructed INTEGER and an application-class INTEGER
ElementIdentifiers == {2, 3, 4, 6, 10, 34, 66}

\* byte values the payloads are drawn from
PayloadBytes == {0, 1, 7, 8, 119, 120, 128, 129}

TypedOps == {"integer", "enumerated", "bitstring", "oid"}

InitObjects ==
    /\ IntencIdle
    /\ LengthIdle
    /\ IdentIdle
    /\ WriterIdle
    /\ NestedIdle
    /\ readers \in {<<Reader_new(<<id, Len(p)>> \o p)>> :
                       id \in ElementIdentifiers, p \in SeqsUpTo(PayloadBytes, MaxPayload)}
    /\ rlast = NoLast
    /\ object = NoObject

\* reader.integer(), .enumerated(), .bitstring() or .oid() on the new Reader
TypedDecode ==
    /\ rlast = NoLast
    /\ \E op \in TypedOps :
          LET o == Decode(op, readers[1])
          IN  /\ readers' = Advance(1, o)
              /\ rlast' = Last(1, op, o, readers[1].index)
    /\ UNCHANGED <<intencVars, headerVars, writerVars, objectVars, nestedVars>>

\* bits.bits() on the BitString returned
BitStringBits ==
    /\ rlast.op = "bitstring"
    /\ rlast.res = "Ok"
    /\ object = NoObject
    /\ object' = Object("bits", rlast.payload, 0, BitString_bits(rlast.payload).res,
                        BitString_bits(rlast.payload).value, <<>>)
    /\ UNCHANGED <<intencVars, headerVars, readerVars, writerVars, nestedVars>>

\* oid.components() on the OID returned
OIDComponents ==
    /\ rlast.op = "oid"
    /\ rlast.res = "Ok"
    /\ object = NoObject
    /\ object' = Object("components", rlast.payload, 1, "none", 0, <<>>)
    /\ UNCHANGED <<intencVars, headerVars, readerVars, writerVars, nestedVars>>

\* next() on the OIDComponents iterator, also after it returned None
ComponentsNext ==
    /\ object.method = "components"
    /\ object.res \notin {"Abort", "Unreachable"}
    /\ LET n == OIDComponents_next(object.slice, object.index)
       IN  object' = [object EXCEPT !.index = n.index, !.res = n.res,
                                    !.yielded = IF n.res = "Some" THEN Append(@, n.bytes) ELSE @]
    /\ UNCHANGED <<intencVars, headerVars, readerVars, writerVars, nestedVars>>

\* to_u8() / to_u16() on the Integer or Enumerated returned
IntegerToPrimitive ==
    /\ rlast.op \in {"integer", "enumerated"}
    /\ rlast.res = "Ok"
    /\ object = NoObject
    /\ \E w \in Widths :
          object' = Object("to_uN", rlast.payload, w,
                           IF to_primitive8(w, rlast.payload).some THEN "Some" ELSE "None",
                           to_primitive8(w, rlast.payload).v, <<>>)
    /\ UNCHANGED <<intencVars, headerVars, readerVars, writerVars, nestedVars>>

NextObjects ==
    \/ TypedDecode
    \/ BitStringBits
    \/ OIDComponents
    \/ ComponentsNext
    \/ IntegerToPrimitive

SpecObjects == InitObjects /\ [][NextObjects]_vars

----------------------------------------------------------------------------
(* Writer, src/src/der/writer.rs                                           *)

\* a Writer: the caller's buffer and the write cursor
Writer(buf, index) == [buf |-> buf, index |-> index]

\* Writer::new
Writer_new(buf) == Writer(buf, 0)

\* the outcome of a Writer call: Ok, Err (BufferTooSmall) or Abort (a panic),
\* and the Writer it leaves
WOutcome(res, w) == [res |-> res, w |-> w]

\* out[0..] = bytes for out = &mut buf[pos..], pos counted from 0
Store(buf, pos, bytes) ==
    [i \in 1..Len(buf) |->
        IF i > pos /\ i <= pos + Len(bytes) THEN bytes[i - pos] ELSE buf[i]]

\* Writer::check_length with the test `index + sz > buf.len() + 1`
check_length_off(w, sz) == ~(w.index + sz > Len(w.buf) + 1)

\* Writer::check_length: TRUE for Ok
check_length(w, sz) == ~(w.index + sz > Len(w.buf))

\* Writer::identifier; size_bytes and encode are asserted to agree
Writer_identifier(w, identifier) ==
    IF ~check_length(w, Identifier_size_bytes(identifier)) THEN WOutcome("Err", w)
    ELSE IF Len(Identifier_encode(identifier)) # Identifier_size_bytes(identifier)
    THEN WOutcome("Abort", w)
    ELSE WOutcome("Ok", Writer(Store(w.buf, w.index, Identifier_encode(identifier)),
                               w.index + Identifier_size_bytes(identifier)))

\* Writer::length
Writer_length(w, length) ==
    IF ~check_length(w, Length_size_bytes(length)) THEN WOutcome("Err", w)
    ELSE IF put_length(length).panic THEN WOutcome("Abort", w)
    ELSE WOutcome("Ok", Writer(Store(w.buf, w.index, put_length(length).bytes),
                               w.index + Length_size_bytes(length)))

\* Writer::prim_identifier
prim_identifier(w, tag) ==
    Writer_identifier(w, Identifier("Universal", "Primitive",
                                    TagEncoded_new_smallest(U32(0, tag))))

\* Writer::constructed_identifier
constructed_identifier(w, tag) ==
    Writer_identifier(w, Identifier("Universal", "Constructed",
                                    TagEncoded_new_smallest(U32(0, tag))))

\* Writer::copy_data after self.length(..) returned l
CopyDataAfterLength(l, data) ==
    IF l.res # "Ok" THEN l
    ELSE IF ~check_length(l.w, Len(data)) THEN WOutcome("Err", l.w)
    ELSE WOutcome("Ok", Writer(Store(l.w.buf, l.w.index, data), l.w.index + Len(data)))

\* Writer::copy_data
copy_data(w, data) ==
    CopyDataAfterLength(Writer_length(w, Length_new_smallest(Usize(Len(data)))), data)

\* the tag each primitive write hands to prim_identifier
WriteTag(op) ==
    CASE op = "bool" -> TAG_BOOLEAN
      [] op = "integer" -> TAG_INTEGER
      [] op = "enumerated" -> TAG_ENUMERATED
      [] op = "bitstring" -> TAG_BIT_STRING
      [] op = "octetstring" -> TAG_OCTET_STRING
      [] op = "null" -> TAG_NULL
      [] op = "utf8_string" -> TAG_UTF8_STRING

\* a primitive write after prim_identifier returned i
PrimAfterIdentifier(i, data) == IF i.res # "Ok" THEN i ELSE copy_data(i.w, data)

\* Writer::bool, integer, enumerated, bitstring, octetstring, null, utf8_string
WritePrim(w, op, data) == PrimAfterIdentifier(prim_identifier(w, WriteTag(op)), data)

\* the end of Writer::sequence without the copy_within of the content
Backpatch_inplace(w, position_length, position_data) ==
    IF w.index - position_data < 128
    THEN WOutcome("Ok", Writer(Store(w.buf, position_length,
                                     put_length(Short(w.index - position_data)).bytes),
                               w.index))
    ELSE LET diff == w.index - position_data
             actual_length == Length_new_smallest(Usize(diff))
             move_forward == Length_size_bytes(actual_length) - 1
         IN  IF move_forward + diff > Len(w.buf) - position_data
             THEN WOutcome("Abort", w)
             ELSE WOutcome("Ok",
                    Writer(Store(w.buf, position_length, put_length(actual_length).bytes),
                           w.index + move_forward))

\* the end of Writer::sequence, once f returned Ok with the Writer at w
Backpatch(w, position_length, position_data) ==
    IF w.index - position_data < 128
    THEN WOutcome("Ok", Writer(Store(w.buf, position_length,
                                     put_length(Short(w.index - position_data)).bytes),
                               w.index))
    ELSE LET diff == w.index - position_data
             actual_length == Length_new_smallest(Usize(diff))
             move_forward == Length_size_bytes(actual_length) - 1
         IN  IF move_forward + diff > Len(w.buf) - position_data
             THEN WOutcome("Abort", w)
             ELSE WOutcome("Ok",
                    Writer(Store(Store(w.buf, position_data + move_forward,
                                       SubSeq(w.buf, position_data + 1, position_data + diff)),
                                 position_length, put_length(actual_length).bytes),
                           w.index + move_forward))

RECURSIVE RunClosure(_, _, _)
RECURSIVE Writer_sequence(_, _)

\* Writer::sequence after self.length(Length::Short(0)) returned l
SequenceAfterLength(l, position_length, f) ==
    IF l.res # "Ok" THEN l
    ELSE IF RunClosure(l.w, f, 1).res # "Ok" THEN RunClosure(l.w, f, 1)
    ELSE Backpatch(RunClosure(l.w, f, 1).w, position_length, l.w.index)

\* Writer::sequence after constructed_identifier returned i
SequenceAfterIdentifier(i, f) ==
    IF i.res # "Ok" THEN i
    ELSE SequenceAfterLength(Writer_length(i.w, Short(0)), i.w.index, f)

\* Writer::sequence(f)
Writer_sequence(w, f) == SequenceAfterIdentifier(constructed_identifier(w, TAG_SEQUENCE), f)

\* one call of a closure on the Writer
WriteCall(w, c) ==
    IF c.op = "sequence" THEN Writer_sequence(w, c.f) ELSE WritePrim(w, c.op, c.data)

\* the rest of a closure after its k-th call returned o: `?` stops at a failure
ClosureAfterCall(o, f, k) == IF o.res # "Ok" THEN o ELSE RunClosure(o.w, f, k + 1)

\* a closure f handed to sequence: its calls from the k-th on, chained with `?`
RunClosure(w, f, k) ==
    IF k > Len(f) THEN WOutcome("Ok", w) ELSE ClosureAfterCall(WriteCall(w, f[k]), f, k)

Call(op, data) == [op |-> op, data |-> data, f |-> <<>>]

SequenceCall(f) == [op |-> "sequence", data |-> <<>>, f |-> f]

\* largest small buffer handed to Writer::new
MaxBuf == 6

\* most calls made on one Writer
MaxWrites == 2

\* an octet string whose TLV takes exactly 0x80 bytes
LongOctets == [i \in 1..126 |-> 2]

\* buffers around the size of a sequence holding LongOctets, and one that
\* holds a sequence of such a sequence and a boolean
LongBufs == {130, 131, 137}

\* the payloads handed to each primitive write
WriteData(op) ==
    CASE op = "bool" -> {<<255>>, <<0>>}
      [] op = "integer" -> {<<1>>, <<127, 255>>}
      [] op = "enumerated" -> {<<2>>}
      [] op = "bitstring" -> {<<0>>, <<3, 8>>}
      [] op = "octetstring" -> {<<>>, <<2, 2, 2>>, LongOctets}
      [] op = "null" -> {<<>>}
      [] op = "utf8_string" -> {<<>>, <<97>>, <<195, 169>>}

PrimWrites == {"bool", "integer", "enumerated", "bitstring", "octetstring", "null", "utf8_string"}

\* the closures handed to Writer::sequence
Closures ==
    {<<>>,
     <<Call("bool", <<255>>)>>,
     <<Call("octetstring", LongOctets)>>,
     <<SequenceCall(<<Call("octetstring", <<2, 2, 2>>)>>), Call("bool", <<255>>)>>,
     <<SequenceCall(<<Call("octetstring", LongOctets)>>), Call("bool", <<255>>)>>}

InitWriter ==
    /\ IntencIdle
    /\ LengthIdle
    /\ IdentIdle
    /\ ReaderIdle
    /\ ObjectIdle
    /\ NestedIdle
    /\ writer \in {Writer_new(Zeros(n)) : n \in (0..MaxBuf) \cup LongBufs}
    /\ wlast = NoWLast
    /\ wcalls = 0

\* Writer::bool, integer, enumerated, bitstring, octetstring, null, utf8_string
WriterPrimitive ==
    /\ wlast.res # "Abort"
    /\ wcalls < MaxWrites
    /\ \E op \in PrimWrites : \E data \in WriteData(op) :
          /\ writer' = WritePrim(writer, op, data).w
          /\ wlast' = WLast(op, WritePrim(writer, op, data).res, writer, <<>>)
    /\ wcalls' = wcalls + 1
    /\ UNCHANGED <<intencVars, headerVars, readerVars, objectVars, nestedVars>>

\* Writer::sequence
WriterSequence ==
    /\ wlast.res # "Abort"
    /\ wcalls < MaxWrites
    /\ \E f \in Closures :
          /\ writer' = Writer_sequence(writer, f).w
          /\ wlast' = WLast("sequence", Writer_sequence(writer, f).res, writer, <<>>)
    /\ wcalls' = wcalls + 1
    /\ UNCHANGED <<intencVars, headerVars, readerVars, objectVars, nestedVars>>

\* Writer::finish
WriterFinish ==
    /\ wlast.res # "Abort"
    /\ wlast.op # "finish"
    /\ writer' = writer
    /\ wlast' = WLast("finish", "Ok", writer, SubSeq(writer.buf, 1, writer.index))
    /\ UNCHANGED <<wcalls, intencVars, headerVars, readerVars, objectVars, nestedVars>>

NextWriter ==
    \/ WriterPrimitive
    \/ WriterSequence
    \/ WriterFinish

SpecWriter == InitWriter /\ [][NextWriter]_vars

----------------------------------------------------------------------------
(* The Writer and the Reader driven as in tests::encode_double_sequence of *)
(* src/src/der/mod.rs: SEQUENCE { SEQUENCE { OCTET STRING s }, BOOLEAN b } *)
(* is written, and the slice finish() returns is read back.  Every         *)
(* .expect(..) of the test ends the run at a failed call.                  *)

\* longest of the short octet strings written
MaxOctets == 2

\* octet string lengths around the places where a length field grows
OctetLens == (0..MaxOctets) \cup {120, 121, 124, 125, 126, 128, 256}

\* let ostring = [..; n]
OctetString(n, seed) == [i \in 1..n |-> (seed + 37 * i) % 256]

\* bytes of buffer beyond the octet string itself
NestedSlack == 8..16

\* |writer| { writer.sequence(|writer| writer.octetstring(&ostring))?; writer.bool(b) }
NestedClosure(s, b) ==
    <<SequenceCall(<<Call("octetstring", s)>>), Call("bool", IF b THEN <<255>> ELSE <<0>>)>>

\* a step of the test is entered in nested.done; a failed step ends the test
Mark(step, res) == IF res = "Ok" THEN step ELSE "failed"

InitNested ==
    /\ IntencIdle
    /\ LengthIdle
    /\ IdentIdle
    /\ ObjectIdle
    /\ ReaderIdle
    /\ nested \in [s : {OctetString(n, seed) : n \in OctetLens, seed \in {2, 200}},
                   b : BOOLEAN, done : {{}}]
    /\ writer \in {Writer_new(Zeros(Len(nested.s) + k)) : k \in NestedSlack}
    /\ wlast = NoWLast
    /\ wcalls = 0

\* writer.sequence(..).expect("outer sequence")
NestedWrite ==
    /\ nested.done = {}
    /\ LET o == Writer_sequence(writer, NestedClosure(nested.s, nested.b))
       IN  /\ writer' = o.w
           /\ wlast' = WLast("sequence", o.res, writer, <<>>)
           /\ nested' = [nested EXCEPT !.done = {Mark("write", o.res)}]
    /\ wcalls' = wcalls + 1
    /\ UNCHANGED <<intencVars, headerVars, readerVars, objectVars>>

\* let slice = writer.finish(); let mut reader = Reader::new(slice)
NestedFinish ==
    /\ nested.done = {"write"}
    /\ wlast' = WLast("finish", "Ok", writer, SubSeq(writer.buf, 1, writer.index))
    /\ readers' = <<Reader_new(SubSeq(writer.buf, 1, writer.index))>>
    /\ nested' = [nested EXCEPT !.done = @ \cup {"finish"}]
    /\ UNCHANGED <<writer, wcalls, rlast, intencVars, headerVars, objectVars>>

\* readers[i].sequence().expect(..), entered in nested.done as step
NestedSequence(i, step) ==
    LET o == Decode("sequence", readers[i])
    IN  /\ readers' = IF o.res = "Ok"
                      THEN Append(Advance(i, o), Reader_new(o.payload))
                      ELSE Advance(i, o)
        /\ rlast' = Last(i, "sequence", o, readers[i].index)
        /\ nested' = [nested EXCEPT !.done = @ \cup {Mark(step, o.res)}]

\* let mut seqreader = reader.sequence().expect("outer sequence")
NestedOuterSequence ==
    /\ "failed" \notin nested.done
    /\ "finish" \in nested.done
    /\ "outer" \notin nested.done
    /\ NestedSequence(1, "outer")
    /\ UNCHANGED <<intencVars, headerVars, writerVars, objectVars>>

\* let mut inreader = seqreader.sequence().expect("inner sequence")
NestedInnerSequence ==
    /\ "failed" \notin nested.done
    /\ "outer" \in nested.done
    /\ "inner" \notin nested.done
    /\ NestedSequence(2, "inner")
    /\ UNCHANGED <<intencVars, headerVars, writerVars, objectVars>>

\* readers[i].bool() / .octetstring() with .expect(..), entered as step
NestedDecode(i, op, step) ==
    LET o == Decode(op, readers[i])
    IN  /\ readers' = Advance(i, o)
        /\ rlast' = Last(i, op, o, readers[i].index)
        /\ nested' = [nested EXCEPT !.done = @ \cup {Mark(step, o.res)}]

\* let b = seqreader.bool().expect("bool")
NestedBool ==
    /\ "failed" \notin nested.done
    /\ "inner" \in nested.done
    /\ "bool" \notin nested.done
    /\ NestedDecode(2, "bool", "bool")
    /\ UNCHANGED <<intencVars, headerVars, writerVars, objectVars>>

\* let ostring2 = inreader.octetstring().expect("octetstring")
NestedOctetString ==
    /\ "failed" \notin nested.done
    /\ "inner" \in nested.done
    /\ "octets" \notin nested.done
    /\ NestedDecode(3, "octetstring", "octets")
    /\ UNCHANGED <<intencVars, headerVars, writerVars, objectVars>>

\* done() on any of the Readers, at any point of the reading
NestedDone ==
    /\ "failed" \notin nested.done
    /\ \E i \in 1..Len(readers) :
          rlast' = Last(i, "done", Reader_done(readers[i]), readers[i].index)
    /\ UNCHANGED <<readers, nested, intencVars, headerVars, writerVars, objectVars>>

NextNested ==
    \/ NestedWrite
    \/ NestedFinish
    \/ NestedOuterSequence
    \/ NestedInnerSequence
    \/ NestedBool
    \/ NestedOctetString
    \/ NestedDone

SpecNested == InitNested /\ [][NextNested]_vars

----------------------------------------------------------------------------
(* One primitive written by the Writer and read back by the Reader method  *)
(* of the same name, as tests::encode_double_sequence of src/src/der/mod.rs *)
(* does for bool and octetstring                                           *)

InitPairs ==
    /\ IntencIdle
    /\ LengthIdle
    /\ IdentIdle
    /\ ObjectIdle
    /\ ReaderIdle
    /\ NestedIdle
    /\ writer \in {Writer_new(Zeros(n)) : n \in (0..MaxBuf) \cup LongBufs}
    /\ wlast = NoWLast
    /\ wcalls = 0

\* writer.bool(..), .integer(..), .enumerated(..), .bitstring(..),
\* .octetstring(..), .null() or .utf8_string(..) on the new Writer
PairWrite ==
    /\ nested = NoNested
    /\ \E op \in PrimWrites : \E data \in WriteData(op) :
          /\ writer' = WritePrim(writer, op, data).w
          /\ wlast' = WLast(op, WritePrim(writer, op, data).res, writer, <<>>)
          /\ nested' = [s |-> data, b |-> FALSE, done |-> {op}]
    /\ wcalls' = wcalls + 1
    /\ UNCHANGED <<intencVars, headerVars, readerVars, objectVars>>

\* let slice = writer.finish(); let mut reader = Reader::new(slice), once the
\* write returned Ok
PairFinish ==
    /\ nested # NoNested
    /\ wlast.res = "Ok"
    /\ readers = <<>>
    /\ wlast' = [wlast EXCEPT !.slice = SubSeq(writer.buf, 1, writer.index)]
    /\ readers' = <<Reader_new(SubSeq(writer.buf, 1, writer.index))>>
    /\ UNCHANGED <<writer, wcalls, rlast, nested, intencVars, headerVars, objectVars>>

\* the Reader method named as the Writer method that wrote the element
PairRead ==
    /\ readers # <<>>
    /\ rlast = NoLast
    /\ LET o == Decode(wlast.op, readers[1])
       IN  /\ readers' = Advance(1, o)
           /\ rlast' = Last(1, wlast.op, o, readers[1].index)
    /\ UNCHANGED <<nested, intencVars, headerVars, writerVars, objectVars>>

NextPairs ==
    \/ PairWrite
    \/ PairFinish
    \/ PairRead

SpecPairs == InitPairs /\ [][NextPairs]_vars

----------------------------------------------------------------------------
(* Exact values as bit strings, most significant bit first, without        *)
(* leading zeros: the yardstick the codecs are measured against            *)

RECURSIVE ToBits(_, _)
ToBits(n, w) == IF w = 0 THEN <<>> ELSE Append(ToBits(n \div 2, w - 1), n % 2)

RECURSIVE StripZeros(_)
StripZeros(bits) ==
    IF bits = <<>> THEN <<>>
    ELSE IF bits[1] = 0 THEN StripZeros(Tail(bits)) ELSE bits

\* the value of big-endian groups of w bits each
RECURSIVE GroupBits(_, _)
GroupBits(bytes, w) ==
    IF bytes = <<>> THEN <<>>
    ELSE ToBits(bytes[1] % Pow2(w), w) \o GroupBits(Tail(bytes), w)

GroupValue(bytes, w) == StripZeros(GroupBits(bytes, w))

U32Value(v) == StripZeros(ToBits(v.hi, 16) \o ToBits(v.lo, 16))

UsizeValue(v) ==
    StripZeros(ToBits(v[1], 16) \o ToBits(v[2], 16) \o ToBits(v[3], 16) \o ToBits(v[4], 16))

\* the least number of bytes that holds a value
MinBytes(bits) == (Len(bits) + 7) \div 8

----------------------------------------------------------------------------
(* C1                                                                      *)

\* C1: every Reader decode operation returns Ok or a typed Err on every input
\* slice and never aborts
C1_ReaderNeverAborts == rlast.res # "Abort"

----------------------------------------------------------------------------
(* C2                                                                      *)

\* C2: when a primitive write fails with BufferTooSmall, the Writer's index
\* after the call equals its index before the call
C2_FailedWriteKeepsIndex ==
    (wlast.op \in PrimWrites /\ wlast.res = "Err") => writer.index = wlast.before.index

----------------------------------------------------------------------------
(* C3                                                                      *)

Min(a, b) == IF a < b THEN a ELSE b

\* the numeric value of big-endian limbs of `bits` bits each, saturated at cap
RECURSIVE SatValue(_, _, _, _)
SatValue(s, i, bits, cap) ==
    IF i = 0 THEN 0
    ELSE Min(cap, SatValue(s, i - 1, bits, cap) * Pow2(bits) + (s[i] % Pow2(bits)))

ViewValue(w) ==
    SatValue(view.bytes, Len(view.bytes), IF view.form = "Integer8Bit" THEN 8 ELSE 7, Pow2(w))

\* C3: to_uN of a validated 8-bit or 7-bit integer is Some(exact value) when
\* the value is below 2^N and None when it is 2^N or more
C3_WidthCheckedExtraction ==
    prim.width # 0 =>
        IF ViewValue(prim.width) < Pow2(prim.width)
        THEN prim.res = Some(ViewValue(prim.width))
        ELSE prim.res = None

----------------------------------------------------------------------------
(* C4                                                                      *)

\* lenOut is a complete long-form length encoding
LongLengthInHand ==
    /\ lenOut.state = "raw"
    /\ lenOut.bytes # <<>>
    /\ lenOut.bytes[1] > 128
    /\ Len(lenOut.bytes) >= 1 + (lenOut.bytes[1] % 128)

LongLengthValue == GroupValue(SubSeq(lenOut.bytes, 2, 1 + (lenOut.bytes[1] % 128)), 8)

\* index (from 1) of the byte that ends the long tag of identOut, 0 if there is none
RECURSIVE TagEnd(_, _)
TagEnd(bytes, i) ==
    IF i > Len(bytes) THEN 0
    ELSE IF bytes[i] < 128 THEN i ELSE TagEnd(bytes, i + 1)

\* identOut is a complete long-form tag without a leading zero group
LongTagInHand ==
    /\ identOut.state = "raw"
    /\ identOut.bytes # <<>>
    /\ identOut.bytes[1] % 32 = 31
    /\ TagEnd(identOut.bytes, 2) # 0
    /\ identOut.bytes[2] # 128

LongTagValue == GroupValue(SubSeq(identOut.bytes, 2, TagEnd(identOut.bytes, 2)), 7)

\* C4: Length::decode of a long-form length and Identifier::decode of a
\* long-form tag return the overflow error when the encoded value does not fit
\* in 32 bits, and otherwise Ok with exactly the encoded value
C4_HeaderOverflowDetected ==
    /\ (LongLengthInHand /\ lenDec # NoLenDec) =>
          IF Len(LongLengthValue) > 32
          THEN lenDec.res = "EncodingOverflow"
          ELSE lenDec.res = "Ok" /\ U32Value(lenDec.len.value) = LongLengthValue
    /\ (LongTagInHand /\ identDec # NoIdentDec) =>
          IF Len(LongTagValue) > 32
          THEN identDec.res = "TagEncodingOverflow"
          ELSE identDec.res = "Ok" /\ U32Value(identDec.ident.tag.value) = LongTagValue

----------------------------------------------------------------------------
(* C5                                                                      *)

\* C5: new_smallest(v) is the short form exactly when v < 0x1f, and the
\* Identifier built from it encodes to bytes that decode back to the same
\* class, primitive/constructed flag and tag value v
C5_TagNewSmallestRoundTrip ==
    /\ (tagArg # NoTagArg /\ identVal # NoIdentVal) =>
          (identVal.tag.kind = "Short" <=> (tagArg.v.hi = 0 /\ tagArg.v.lo < 31))
    /\ (tagArg # NoTagArg /\ identDec # NoIdentDec) =>
          /\ identDec.res = "Ok"
          /\ identDec.ident.class = tagArg.class
          /\ identDec.ident.pc = tagArg.pc
          /\ TagEncoded_value(identDec.ident.tag) = tagArg.v

----------------------------------------------------------------------------
(* C6                                                                      *)

\* the first byte of the length field of the element at position pos (from 0)
\* of slice, 0 when the identifier there does not decode
LengthFieldAt(slice, pos) ==
    IF Identifier_decode(SubSeq(slice, pos + 1, Len(slice))).res # "Ok" THEN 0
    ELSE pos + Identifier_decode(SubSeq(slice, pos + 1, Len(slice))).size + 1

\* the long-form length field starting at byte p (from 1) of slice is complete
\* and not minimal: its value is below 0x80 or its first value byte is zero
NonMinimalAt(slice, p) ==
    /\ p # 0
    /\ p <= Len(slice)
    /\ slice[p] > 128
    /\ p + (slice[p] % 128) <= Len(slice)
    /\ \/ slice[p + 1] = 0
       \/ Len(GroupValue(SubSeq(slice, p + 1, p + (slice[p] % 128)), 8)) <= 7

DecodeOps == PrimOps \cup {"sequence", "set", "Set::next"}

\* C6: no Reader decode operation returns Ok for an element whose length field
\* is not the minimal DER encoding of its value
C6_NonMinimalLengthRejected ==
    (rlast.op \in DecodeOps /\ rlast.res = "Ok") =>
        ~NonMinimalAt(readers[rlast.who].slice,
                      LengthFieldAt(readers[rlast.who].slice, rlast.before))

----------------------------------------------------------------------------
(* C7                                                                      *)

\* C7: when the element parser of a Set returns Err, the Set's Reader is left
\* at the position it had before the call
C7_SetErrorKeepsCursor ==
    (rlast.op = "Set::next" /\ rlast.res = "Err") =>
        readers[rlast.who].index = rlast.before

----------------------------------------------------------------------------
(* C8                                                                      *)

\* C8: for a length v >= 2^32, new_smallest(v) followed by encode never gives
\* bytes that decode to a different value
C8_OversizeLengthRefused ==
    (lenArg # NoUsize /\ Len(UsizeValue(lenArg)) > 32 /\ lenDec # NoLenDec) =>
        ~(lenDec.res = "Ok" /\ U32Value(lenDec.len.value) # UsizeValue(lenArg))

----------------------------------------------------------------------------
(* C9                                                                      *)

\* an Identifier given directly: any class, any flag, Short(0..30) or Long(any u32)
IdentifierInHand == tagArg = NoTagArg /\ identVal # NoIdentVal

\* C9: Identifier::decode of the bytes written by x.encode returns (x, n),
\* n the number of bytes encode wrote
C9_IdentifierRoundTrip ==
    (IdentifierInHand /\ identDec # NoIdentDec) =>
        /\ identDec.res = "Ok"
        /\ identDec.ident = identVal
        /\ identDec.size = identOut.written

\* the long tag 0x12482 of three groups went through encode and decode
C9_Witness ==
    /\ IdentifierInHand
    /\ identVal.tag = TagLong(U32(1, 9346))
    /\ identOut.written = 4
    /\ identDec.res = "Ok"

----------------------------------------------------------------------------
(* C10                                                                     *)

LengthArgBelow2p32 == lenArg # NoUsize /\ Len(UsizeValue(lenArg)) <= 32

\* C10: for v < 2^32, new_smallest(v) is Short(v) below 0x80 and otherwise
\* Long of the least byte count holding v, and Length::decode of its encoding
\* returns (new_smallest(v), size_bytes())
C10_LengthRoundTrip ==
    /\ (LengthArgBelow2p32 /\ lenVal # NoLen) =>
          IF Len(UsizeValue(lenArg)) <= 7
          THEN lenVal = Short(lenArg[4])
          ELSE /\ lenVal.kind = "Long"
               /\ U32Value(lenVal.value) = UsizeValue(lenArg)
               /\ lenVal.nb_bytes = MinBytes(UsizeValue(lenArg))
    /\ (LengthArgBelow2p32 /\ lenDec # NoLenDec) =>
          /\ lenDec.res = "Ok"
          /\ lenDec.len = lenVal
          /\ lenDec.size = Length_size_bytes(lenVal)

\* the length 2149214 of three long-form bytes went through encode and decode
C10_Witness ==
    /\ lenArg = <<0, 0, 32, 52062>>
    /\ lenVal.kind = "Long"
    /\ lenVal.nb_bytes = 3
    /\ lenDec.res = "Ok"

----------------------------------------------------------------------------
(* C11                                                                     *)

\* the size of a TLV with a one-byte identifier and n bytes of content
TLVSize(n) ==
    1 + (IF n < 128 THEN 1 ELSE IF n < 256 THEN 2 ELSE IF n < 65536 THEN 3 ELSE 4) + n

\* the size of SEQUENCE { SEQUENCE { OCTET STRING of n bytes }, BOOLEAN }
NestedSize(n) == TLVSize(TLVSize(TLVSize(n)) + TLVSize(1))

\* every element of readers[i] has been read
Consumed(i) ==
    CASE i = 1 -> "outer" \in nested.done
      [] i = 2 -> {"inner", "bool"} \subseteq nested.done
      [] i = 3 -> "octets" \in nested.done

\* C11: when SEQUENCE { SEQUENCE { OCTET STRING s }, BOOLEAN b } fits the
\* buffer, the write and every read of the slice finish() returns succeed,
\* octetstring() yields s and bool() yields b, and done() on a Reader returns
\* Ok once all its elements are read and ReaderNotTerminated before that
C11_NestedRoundTrip ==
    /\ (nested # NoNested /\ NestedSize(Len(nested.s)) <= Len(writer.buf)) =>
          "failed" \notin nested.done
    /\ (nested # NoNested /\ rlast.op = "octetstring" /\ rlast.res = "Ok") =>
          rlast.payload = nested.s
    /\ (nested # NoNested /\ rlast.op = "bool" /\ rlast.res = "Ok") =>
          rlast.payload = <<IF nested.b THEN 255 ELSE 0>>
    /\ (nested # NoNested /\ rlast.op = "done") =>
          IF Consumed(rlast.who) THEN rlast.res = "Ok"
          ELSE rlast.res = "Err" /\ rlast.err = "ReaderNotTerminated"

\* an octet string of 126 bytes, whose inner and outer sequence both take a
\* long-form length, was written and read back, and the inner Reader is done
C11_Witness ==
    /\ Len(nested.s) = 126
    /\ {"bool", "octets"} \subseteq nested.done
    /\ rlast.op = "done"
    /\ rlast.who = 3
    /\ rlast.res = "Ok"
    /\ readers[1].slice[2] = 129
    /\ readers[2].slice[2] = 129

----------------------------------------------------------------------------
(* C12                                                                     *)

\* the number of bytes of the length field that starts at byte p (from 1)
LengthFieldSize(slice, p) == IF slice[p] > 128 THEN 1 + (slice[p] % 128) ELSE 1

\* the payload length the length field at byte p declares, as a bit string
DeclaredLength(slice, p) ==
    IF slice[p] > 128
    THEN GroupValue(SubSeq(slice, p + 1, p + (slice[p] % 128)), 8)
    ELSE GroupValue(<<slice[p]>>, 8)

\* the element read by the last call took `advance` bytes: those of its
\* identifier, of its length field, and as many as the length field declares
AdvancedByTLV(slice, before, advance) ==
    LET p == LengthFieldAt(slice, before)
        payload == advance - (p - 1 - before) - LengthFieldSize(slice, p)
    IN  /\ p # 0
        /\ payload >= 0
        /\ StripZeros(ToBits(payload, 31)) = DeclaredLength(slice, p)

----------------------------------------------------------------------------
(* C13                                                                     *)

WriteOps == PrimWrites \cup {"sequence"}

\* C13: the Writer's index never exceeds buf.len(); a call that fails leaves
\* the bytes committed before it, buf[0..index before the call), unchanged;
\* and finish() returns exactly buf[0..index) and leaves the Writer as it was
C13_WriterCursor ==
    /\ writer.index >= 0
    /\ writer.index <= Len(writer.buf)
    /\ (wlast.op \in WriteOps /\ wlast.res # "Ok") =>
          /\ Len(writer.buf) = Len(wlast.before.buf)
          /\ SubSeq(writer.buf, 1, wlast.before.index)
                = SubSeq(wlast.before.buf, 1, wlast.before.index)
    /\ wlast.op = "finish" =>
          /\ wlast.slice = SubSeq(writer.buf, 1, writer.index)
          /\ writer = wlast.before

\* a sequence call failed part-way, after earlier calls had committed bytes
C13_Witness ==
    /\ wlast.op = "sequence"
    /\ wlast.res = "Err"
    /\ wlast.before.index > 0
    /\ writer.index > wlast.before.index + 2

----------------------------------------------------------------------------
(* C14                                                                     *)

\* position (from 0) of the first payload byte of the element at pos of slice
PayloadAt(slice, pos) ==
    LengthFieldAt(slice, pos) - 1 + LengthFieldSize(slice, LengthFieldAt(slice, pos))

\* the Reader that the last call returned starts at cursor 0 over exactly the
\* payload bytes of the element the call read
FreshSubReader ==
    (rlast.op \in {"sequence", "set"} /\ rlast.res = "Ok") =>
        /\ readers[Len(readers)].index = 0
        /\ readers[Len(readers)].slice
              = SubSeq(readers[rlast.who].slice,
                       PayloadAt(readers[rlast.who].slice, rlast.before) + 1,
                       readers[rlast.who].index)
        /\ StripZeros(ToBits(Len(readers[Len(readers)].slice), 31))
              = DeclaredLength(readers[rlast.who].slice,
                               LengthFieldAt(readers[rlast.who].slice, rlast.before))

\* a call on one Reader leaves the cursor and the bytes of every other Reader,
\* and the bytes of its own, as they were
OthersUntouched ==
    /\ Len(readers') >= Len(readers)
    /\ \A j \in 1..Len(readers) :
          /\ readers'[j].slice = readers[j].slice
          /\ j # rlast'.who => readers'[j] = readers[j]

----------------------------------------------------------------------------
(* C15                                                                     *)

\* the payload of the one element of the slice handed to the Reader
ElementPayload == SubSeq(readers[1].slice, 3, Len(readers[1].slice))

\* the low n bits of byte b, as a bit string without leading zeros
LowBits(b, n) == StripZeros(SubSeq(ToBits(b, 8), 9 - n, 8))

\* C15: for a universal primitive tag-3 element bitstring() returns
\* BitStringEncodingEmpty for an empty payload, BitStringEncodingInvalidStart
\* when the first byte is > 7 or is > 0 with a payload of length 1,
\* BitStringEncodingInvalidEnd when the first byte n is in 1..7 and the low n
\* bits of the last byte are not all zero, and otherwise Ok with
\* bits() = 8 * (payload length - 1) - n, which is never negative
C15_BitStringValidation ==
    (rlast.op = "bitstring" /\ readers[1].slice[1] = TAG_BIT_STRING) =>
        LET p == ElementPayload
        IN  IF p = <<>>
            THEN rlast.res = "Err" /\ rlast.err = "BitStringEncodingEmpty"
            ELSE IF p[1] > 7 \/ (p[1] > 0 /\ Len(p) = 1)
            THEN rlast.res = "Err" /\ rlast.err = "BitStringEncodingInvalidStart"
            ELSE IF p[1] >= 1 /\ LowBits(p[Len(p)], p[1]) # <<>>
            THEN rlast.res = "Err" /\ rlast.err = "BitStringEncodingInvalidEnd"
            ELSE /\ rlast.res = "Ok"
                 /\ rlast.payload = p
                 /\ object.method = "bits" =>
                       /\ object.res = "Ok"
                       /\ object.value = 8 * (Len(p) - 1) - p[1]
                       /\ object.value >= 0

\* bits() was called on a bit string of two data bytes and seven unused bits
C15_Witness ==
    /\ rlast.op = "bitstring"
    /\ ElementPayload = <<7, 1, 128>>
    /\ object.method = "bits"
    /\ object.value = 9

----------------------------------------------------------------------------
(* C16                                                                     *)

\* byte k (from 1) of an OID payload starts a component
StartsComponent(p, k) == k = 2 \/ (k > 2 /\ p[k - 1] < 128)

\* the payload is a first byte of at most 119 followed by components that
\* each end with a byte below 0x80 and do not start with 0x80
WellFormedOID(p) ==
    /\ p # <<>>
    /\ p[1] <= 119
    /\ Len(p) >= 2 => p[Len(p)] < 128
    /\ \A k \in 2..Len(p) : StartsComponent(p, k) => p[k] # 128

\* the components of a well-formed payload from byte k on, in order
RECURSIVE ComponentsFrom(_, _, _)
ComponentsFrom(p, k, start) ==
    IF k > Len(p) THEN <<>>
    ELSE IF p[k] < 128 THEN <<SubSeq(p, start, k)>> \o ComponentsFrom(p, k + 1, k + 1)
    ELSE ComponentsFrom(p, k + 1, start)

\* C16: for a universal primitive tag-6 element oid() returns Ok exactly when
\* the payload is well formed and OIDInvalid otherwise; components() of an
\* accepted OID yields its components in order, returns None once the last
\* byte is passed, and never reaches its unreachable branch
C16_OIDValidation ==
    /\ (rlast.op = "oid" /\ readers[1].slice[1] = TAG_OID) =>
          IF WellFormedOID(ElementPayload)
          THEN rlast.res = "Ok" /\ rlast.payload = ElementPayload
          ELSE rlast.res = "Err" /\ rlast.err = "OIDInvalid"
    /\ object.method = "components" =>
          /\ object.res \in {"none", "Some", "None"}
          /\ object.slice = ElementPayload
          /\ Len(object.yielded) <= Len(ComponentsFrom(object.slice, 2, 2))
          /\ object.yielded = SubSeq(ComponentsFrom(object.slice, 2, 2), 1, Len(object.yielded))
          /\ object.index <= Len(object.slice)
          /\ object.index = Len(object.slice) =>
                object.yielded = ComponentsFrom(object.slice, 2, 2)
          /\ object.res = "None" => object.index = Len(object.slice)

\* the iterator over an OID of two components yielded both and then
\* returned None
C16_Witness ==
    /\ object.method = "components"
    /\ object.slice = <<1, 7, 8>>
    /\ object.yielded = <<(<<7>>), (<<8>>)>>
    /\ object.res = "None"

----------------------------------------------------------------------------
(* C17                                                                     *)

\* the universal tag integer() and enumerated() ask for
IntegerTag(op) == IF op = "integer" THEN TAG_INTEGER ELSE TAG_ENUMERATED

\* C17: integer() and enumerated() on an element with the matching universal
\* primitive tag return IntegerNotCanonical when the payload is empty or its
\* first byte is 0x00 and otherwise a view whose bytes are the payload (one
\* byte v yields the value v); an element of another class, another
\* primitive/constructed flag or another tag is reported as ExpectedClass,
\* ExpectedCType or ExpectedTag
C17_IntegerCanonical ==
    /\ rlast.op \in {"integer", "enumerated"} =>
          LET h == readers[1].slice[1]
              p == ElementPayload
          IN  IF h \div 64 # 0 THEN rlast.res = "Err" /\ rlast.err = "ExpectedClass"
              ELSE IF (h \div 32) % 2 # 0 THEN rlast.res = "Err" /\ rlast.err = "ExpectedCType"
              ELSE IF h % 32 # IntegerTag(rlast.op)
              THEN rlast.res = "Err" /\ rlast.err = "ExpectedTag"
              ELSE IF p = <<>> \/ p[1] = 0
              THEN rlast.res = "Err" /\ rlast.err = "IntegerNotCanonical"
              ELSE rlast.res = "Ok" /\ rlast.payload = p
    /\ (object.method = "to_uN" /\ Len(object.slice) = 1) =>
          /\ object.res = "Some"
          /\ object.value = object.slice[1]

\* to_u8() of the INTEGER with payload [0x01] returned 1
C17_Witness ==
    /\ rlast.op = "integer"
    /\ readers[1].slice = <<2, 1, 1>>
    /\ object.method = "to_uN"
    /\ object.index = 8
    /\ object.res = "Some"
    /\ object.value = 1

----------------------------------------------------------------------------
(* C18                                                                     *)

\* a Writer over a zeroed buffer of as many bytes as the test buffers have
FreshWriter == Writer_new(Zeros(TestBufLen))

\* C18: the number of bytes Identifier::encode and Length::encode store equals
\* size_bytes() for every Identifier and every Length that encode accepts, so
\* that Writer::identifier never fails its assertion and the Writer's index
\* advances by exactly the number of bytes stored
C18_SizeBytesAgree ==
    /\ identOut.state = "written" =>
          /\ identOut.written = Identifier_size_bytes(identVal)
          /\ Writer_identifier(FreshWriter, identVal).res = "Ok"
          /\ Writer_identifier(FreshWriter, identVal).w.index = identOut.written
    /\ lenOut.state = "written" =>
          /\ lenOut.written = Length_size_bytes(lenVal)
          /\ Writer_length(FreshWriter, lenVal).res = "Ok"
          /\ Writer_length(FreshWriter, lenVal).w.index = lenOut.written

\* a long-form length of 31 bytes, 27 of them padding, was encoded
C18_Witness ==
    /\ lenVal = Long(31, U32(65535, 65535))
    /\ lenOut.state = "written"
    /\ lenOut.written = 32

----------------------------------------------------------------------------
(* C19                                                                     *)

\* the minimal DER length field for n: one byte below 0x80, otherwise the
\* count k of value bytes, k the least possible, and the k bytes of n
MinimalLengthField(n) ==
    IF n < 128 THEN <<n>>
    ELSE LET k == MinBytes(StripZeros(ToBits(n, 31)))
         IN  <<128 + k>> \o [j \in 1..k |-> (n \div Pow2(8 * (k - j))) % 256]

\* the Writer as f finds it: the identifier and Length::Short(0) are written
BeforeClosure(w) == Writer(Store(w.buf, w.index, <<48, 0>>), w.index + 2)

\* sequence(f) on w0 left the Writer at w1: with f having written diff bytes
\* from position_data on, the buffer holds the identifier, the minimal length
\* field of diff and those diff bytes, and is otherwise as f left it
Backpatched(w0, f, w1) ==
    LET position_data == w0.index + 2
        fw == RunClosure(BeforeClosure(w0), f, 1).w
        diff == fw.index - position_data
        field == MinimalLengthField(diff)
    IN  /\ w1.index = fw.index + (Len(field) - 1)
        /\ Len(w1.buf) = Len(w0.buf)
        /\ SubSeq(w1.buf, 1, w0.index) = SubSeq(w0.buf, 1, w0.index)
        /\ SubSeq(w1.buf, w0.index + 1, w1.index)
              = <<48>> \o field \o SubSeq(fw.buf, position_data + 1, position_data + diff)

\* C19: when sequence(f) returns Ok, the buffer holds at position_length the
\* minimal DER length encoding of the number diff of bytes f wrote, followed
\* by those bytes in order and unmodified, and index is where f left it plus
\* the length field size minus 1; also for an f that itself calls sequence
C19_SequenceBackpatch ==
    (wlast.op = "sequence" /\ wlast.res = "Ok") =>
        /\ \E f \in Closures : Writer_sequence(wlast.before, f) = WOutcome("Ok", writer)
        /\ \A f \in Closures :
              Writer_sequence(wlast.before, f) = WOutcome("Ok", writer) =>
                  Backpatched(wlast.before, f, writer)

\* SEQUENCE { SEQUENCE { OCTET STRING of 126 bytes }, BOOLEAN }: the inner and
\* then the outer content were moved forward for a two-byte length field
C19_Witness ==
    /\ wlast.op = "sequence"
    /\ wlast.res = "Ok"
    /\ writer.index = 137
    /\ SubSeq(writer.buf, 1, 8) = <<48, 129, 134, 48, 129, 128, 4, 126>>
    /\ SubSeq(writer.buf, 135, 137) = <<1, 1, 255>>

----------------------------------------------------------------------------
(* C20                                                                     *)

\* C20: Writer::sequence never aborts: when the buffer cannot hold the
\* finished sequence, also when only the extra long-form length bytes of the
\* backpatch do not fit, it returns Err(BufferTooSmall)
C20_SequenceNeverAborts == wlast.op = "sequence" => wlast.res \in {"Ok", "Err"}

----------------------------------------------------------------------------
(* C21                                                                     *)

\* C21: Reader::utf8_string applied to the bytes Writer::utf8_string(s) wrote
\* returns Ok(s), as the Reader methods bool, octetstring and null do for the
\* bytes their Writer methods wrote
C21_Utf8Symmetry ==
    (rlast.op \in {"utf8_string", "bool", "octetstring", "null"} /\ rlast.op = wlast.op) =>
        /\ rlast.res = "Ok"
        /\ rlast.payload = nested.s

====
